---- MODULE Spec2Model ----
(***************************************************************************)
(* Task manager backend: the auth gate (middleware/authMiddleware.js) and  *)
(* the task routes (routes/taskRoutes.js) over the Task schema             *)
(* (models/Task.js).  One request at a time travels the express pipeline:  *)
(* Arrive -> Protect -> route handler -> response.  PUT handlers that run  *)
(* beside it, stopped between their findOne and their save, are in         *)
(* inflight.                                                               *)
(***************************************************************************)
EXTENDS Integers, Sequences, FiniteSets, TLC

VARIABLES
    users,      \* credential store: ids of the user records that exist
    issued,     \* tokens minted by generateToken and held by clients
    tasks,      \* task collection: function from _id to task document
    nextId,     \* next fresh _id the collection hands out
    now,        \* server clock (days)
    req,        \* the request in the pipeline
    resp,       \* the response written for it
    stage,      \* "idle" | "protect" | "route" | "done"
    inflight,   \* PUT handlers running beside the pipeline, by slot
    localStorage,   \* the browser's entries 'token' and 'user'
    dashboard   \* the Dashboard component: its tasks state and handler calls

vars == <<users, issued, tasks, nextId, now, req, resp, stage, inflight,
          localStorage, dashboard>>

(***************************************************************************)
(* Bounds of the exploration                                               *)
(***************************************************************************)
MaxTasks == 2       \* documents ever created in one run
MaxClock == 3       \* saves in one run (each save reads a later clock)
MaxLogins == 2      \* tokens minted in one run of the gate

(***************************************************************************)
(* Program constants                                                       *)
(***************************************************************************)
TitleMin == 3
TitleMax == 100
DescMax == 500
TokenDays == 30

Users == {"u1", "u2"}
JWT_SECRET == "server-secret"

\* Variant: the enumeration of status also holds done.
StatusEnumWithDone == {"pending", "in-progress", "completed", "done"}

\* the enumerations of the schema and of the validators
StatusEnum == {"pending", "in-progress", "completed"}
PriorityEnum == {"low", "medium", "high"}

\* An optional value: absent is <<>>, present is <<v>>.
None == <<>>
Some(v) == <<v>>

(***************************************************************************)
(* Text: a string is a sequence of characters; trim strips the whitespace  *)
(* at both ends.                                                           *)
(***************************************************************************)
Rep(c, n) == [i \in 1..n |-> c]
IsSpace(c) == c = " "

RECURSIVE TrimLeft(_)
TrimLeft(s) ==
    IF Len(s) > 0 /\ IsSpace(Head(s)) THEN TrimLeft(Tail(s)) ELSE s

RECURSIVE TrimRight(_)
TrimRight(s) ==
    IF Len(s) > 0 /\ IsSpace(s[Len(s)])
    THEN TrimRight(SubSeq(s, 1, Len(s) - 1))
    ELSE s

Trim(s) == TrimRight(TrimLeft(s))

(***************************************************************************)
(* Request bodies: a function from the field names supplied to values.     *)
(***************************************************************************)
Has(body, f) == f \in DOMAIN body
Get(body, f) == IF Has(body, f) THEN Some(body[f]) ELSE None

(***************************************************************************)
(* express-validator chains of POST / and PUT /:id.  A chain whose field   *)
(* is optional and absent is skipped; a missing required field validates   *)
(* as the empty string.  trim() is a sanitizer: it rewrites req.body.      *)
(***************************************************************************)
TitleError ==
    [path |-> "title", msg |-> "Title must be between 3 and 100 characters"]
DescriptionError ==
    [path |-> "description", msg |-> "Description cannot exceed 500 characters"]
StatusError == [path |-> "status", msg |-> "Invalid status"]
PriorityError == [path |-> "priority", msg |-> "Invalid priority"]

TitleChain(body, optional) ==
    IF ~Has(body, "title")
    THEN IF optional THEN <<>> ELSE <<TitleError>>
    ELSE LET n == Len(Trim(body["title"]))
         IN  IF n >= TitleMin /\ n <= TitleMax THEN <<>> ELSE <<TitleError>>

DescriptionChain(body) ==
    IF ~Has(body, "description") THEN <<>>
    ELSE IF Len(Trim(body["description"])) <= DescMax
         THEN <<>> ELSE <<DescriptionError>>

StatusChain(body) ==
    IF ~Has(body, "status") THEN <<>>
    ELSE IF body["status"] \in StatusEnum THEN <<>> ELSE <<StatusError>>

PriorityChain(body) ==
    IF ~Has(body, "priority") THEN <<>>
    ELSE IF body["priority"] \in PriorityEnum THEN <<>> ELSE <<PriorityError>>

\* Variant: validation stops at the first failing chain.
FirstErrorOnly(body, optionalTitle) ==
    LET all == TitleChain(body, optionalTitle) \o DescriptionChain(body)
                 \o StatusChain(body) \o PriorityChain(body)
    IN  IF all = <<>> THEN <<>> ELSE <<Head(all)>>

\* Every chain runs; validationResult(req).array() holds all their errors.
validationResult(body, optionalTitle) ==
    TitleChain(body, optionalTitle) \o DescriptionChain(body)
        \o StatusChain(body) \o PriorityChain(body)

\* req.body after the sanitizers ran.
Sanitized(body) ==
    [f \in DOMAIN body |->
        IF f \in {"title", "description"} THEN Trim(body[f]) ELSE body[f]]

(***************************************************************************)
(* Task schema: casting, defaults and validators applied by a save.        *)
(***************************************************************************)
\* Date cast of the dueDate path: the day a date string denotes.
IsDate(s) == s \in {"2025-01-01", "2025-12-31"}
ToDate(s) == IF s = "2025-01-01" THEN 1 ELSE 365

SchemaValid(doc) ==
    /\ Len(doc.title) >= TitleMin /\ Len(doc.title) <= TitleMax
    /\ (doc.description # None => Len(doc.description[1]) <= DescMax)
    /\ doc.status \in StatusEnum
    /\ doc.priority \in PriorityEnum
    /\ doc.user \in Users

(***************************************************************************)
(* Token service (jsonwebtoken): a token binds a user id and an expiration *)
(* and is signed with a key.                                               *)
(***************************************************************************)
Jwt(id, iat, exp, key) ==
    [kind |-> "jwt", id |-> id, iat |-> iat, exp |-> exp, key |-> key]
Garbage == [kind |-> "garbage", id |-> "", iat |-> 0, exp |-> 0, key |-> ""]

\* jwt.sign({ id }, JWT_SECRET, { expiresIn: '30d' }) at time t
generateToken(id, t) == Jwt(id, t, t + TokenDays, JWT_SECRET)

\* Variant: the exp claim is not checked.
VerifyIgnoringExpiry(token, secret, t) ==
    IF token = None \/ token[1].kind # "jwt" \/ token[1].key # secret
    THEN [ok |-> FALSE, name |-> "JsonWebTokenError", id |-> ""]
    ELSE [ok |-> TRUE, name |-> "", id |-> token[1].id]

\* jwt.verify(token, secret) at time t: the decoded payload or the error thrown
jwtVerify(token, secret, t) ==
    IF token = None
    THEN [ok |-> FALSE, name |-> "JsonWebTokenError", id |-> ""]  \* jwt must be provided
    ELSE IF token[1].kind # "jwt"
    THEN [ok |-> FALSE, name |-> "JsonWebTokenError", id |-> ""]  \* jwt malformed
    ELSE IF token[1].key # secret
    THEN [ok |-> FALSE, name |-> "JsonWebTokenError", id |-> ""]  \* invalid signature
    ELSE IF t >= token[1].exp
    THEN [ok |-> FALSE, name |-> "TokenExpiredError", id |-> ""]  \* jwt expired
    ELSE [ok |-> TRUE, name |-> "", id |-> token[1].id]

(***************************************************************************)
(* Responses                                                               *)
(***************************************************************************)
\* a response body: task is data.task; tasks and count are data.tasks and
\* count of the list and search routes
Response(status, message, task, errors, error) ==
    [status |-> status, message |-> message, task |-> task,
     errors |-> errors, error |-> error, tasks |-> <<>>, count |-> None]
NoResponse == Response(0, "", None, <<>>, None)
Fail(status, message) == Response(status, message, None, <<>>, None)

(***************************************************************************)
(* Auth gate: protect                                                      *)
(***************************************************************************)
NoHeader == [scheme |-> "", token |-> None]
Bearer(token) == [scheme |-> "Bearer", token |-> Some(token)]

\* Variant: the decoded id is trusted without a lookup.
TrustTokenId(us, id) == Some(id)

\* User.findById(id): the user record, or null

findById(us, id) == IF id \in us THEN Some(id) ELSE None

\* the catch block of protect
protectCatch(name) ==
    IF name = "JsonWebTokenError" THEN Fail(401, "Invalid token")
    ELSE IF name = "TokenExpiredError" THEN Fail(401, "Token expired")
    ELSE Fail(401, "Not authorized, token failed")

\* What protect decides for a request: call next() with req.user, or respond.
\* Variant: the payload is decoded without checking signature or expiration.
protectDecodeOnly(r, us, t) ==
    IF r.authorization.scheme = "Bearer"
    THEN IF r.authorization.token # None /\ r.authorization.token[1].kind = "jwt"
         THEN LET user == findById(us, r.authorization.token[1].id)
              IN  IF user = None
                  THEN [next |-> FALSE, user |-> None,
                        resp |-> Fail(401, "User not found")]
                  ELSE [next |-> TRUE, user |-> user, resp |-> NoResponse]
         ELSE [next |-> FALSE, user |-> None,
               resp |-> protectCatch("JsonWebTokenError")]
    ELSE [next |-> FALSE, user |-> None,
          resp |-> Fail(401, "Not authorized, no token provided")]

protect(r, us, t) ==
    IF r.authorization.scheme = "Bearer"
    THEN LET decoded == jwtVerify(r.authorization.token, JWT_SECRET, t)
         IN  IF decoded.ok
             THEN LET user == findById(us, decoded.id)
                  IN  IF user = None
                      THEN [next |-> FALSE, user |-> None,
                            resp |-> Fail(401, "User not found")]
                      ELSE [next |-> TRUE, user |-> user, resp |-> NoResponse]
             ELSE [next |-> FALSE, user |-> None,
                   resp |-> protectCatch(decoded.name)]
    ELSE [next |-> FALSE, user |-> None,
          resp |-> Fail(401, "Not authorized, no token provided")]

\* router.use(protect): the gate is the first stage of every task route.
Protect ==
    /\ stage = "protect"
    /\ LET d == protect(req, users, now)
       IN  /\ req' = [req EXCEPT !.user = d.user]
           /\ resp' = d.resp
           /\ stage' = IF d.next THEN "route" ELSE "done"
    /\ UNCHANGED <<localStorage, dashboard, inflight, users, issued, tasks, nextId, now>>

(***************************************************************************)
(* Task collection queries                                                 *)
(***************************************************************************)
\* Variant: the filter names the _id alone.
findOneByIdOnly(ts, id, user) ==
    IF id \in DOMAIN ts THEN Some(ts[id]) ELSE None

\* Task.findOne({ _id, user }): the document matching both, or null
findOne(ts, id, user) ==
    IF id \in DOMAIN ts /\ ts[id].user = user THEN Some(ts[id]) ELSE None

\* Variant: the document is reported deleted and kept.
WithoutNothing(ts, id) == ts

\* the collection without document id
Without(ts, id) == [i \in DOMAIN ts \ {id} |-> ts[i]]

\* the collection with document doc inserted or replaced
With(ts, doc) ==
    [i \in DOMAIN ts \cup {doc.id} |-> IF i = doc.id THEN doc ELSE ts[i]]

(***************************************************************************)
(* GET /:id                                                                *)
(***************************************************************************)
GetTaskResponse(ts, id, user) ==
    LET task == findOne(ts, id, user)
    IN  IF task = None
        THEN Fail(404, "Task not found")
        ELSE Response(200, "", task, <<>>, None)

GetTask ==
    /\ stage = "route"
    /\ req.method = "GET"
    /\ resp' = GetTaskResponse(tasks, req.id, req.user[1])
    /\ stage' = "done"
    /\ UNCHANGED <<localStorage, dashboard, inflight, users, issued, tasks, nextId, now, req>>

(***************************************************************************)
(* DELETE /:id                                                             *)
(***************************************************************************)
DeleteTaskResponse(ts, id, user) ==
    LET task == findOne(ts, id, user)
    IN  IF task = None
        THEN Fail(404, "Task not found")
        ELSE Response(200, "Task deleted successfully", task, <<>>, None)

DeleteTask ==
    /\ stage = "route"
    /\ req.method = "DELETE"
    /\ LET task == findOne(tasks, req.id, req.user[1])
       IN  tasks' = IF task = None THEN tasks ELSE Without(tasks, req.id)
    /\ resp' = DeleteTaskResponse(tasks, req.id, req.user[1])
    /\ stage' = "done"
    /\ UNCHANGED <<localStorage, dashboard, inflight, users, issued, nextId, now, req>>

(***************************************************************************)
(* POST /                                                                  *)
(***************************************************************************)
\* Variant: status and priority of the body are dropped.
NewTaskAllDefaults(id, body, user, t) ==
    [id |-> id,
     title |-> Trim(body["title"]),
     description |-> IF Has(body, "description")
                     THEN Some(Trim(body["description"])) ELSE None,
     status |-> "pending",
     priority |-> "medium",
     dueDate |-> IF Has(body, "dueDate")
                 THEN Some(ToDate(body["dueDate"])) ELSE None,
     user |-> user,
     createdAt |-> t,
     updatedAt |-> t]

\* the document Task.create builds from the destructured body
NewTask(id, body, user, t) ==
    [id |-> id,
     title |-> Trim(body["title"]),
     description |-> IF Has(body, "description")
                     THEN Some(Trim(body["description"])) ELSE None,
     status |-> IF Has(body, "status") /\ body["status"] # ""
                THEN body["status"] ELSE "pending",
     priority |-> IF Has(body, "priority") /\ body["priority"] # ""
                  THEN body["priority"] ELSE "medium",
     dueDate |-> IF Has(body, "dueDate")
                 THEN Some(ToDate(body["dueDate"])) ELSE None,
     user |-> user,
     createdAt |-> t,
     updatedAt |-> t]

\* the casts of a save succeed
CastOk(body) == Has(body, "dueDate") => IsDate(body["dueDate"])

\* outcome of the POST handler: the response and the document saved, if any
CreateOutcome(id, body, user, t) ==
    LET errors == validationResult(body, FALSE)
        clean == Sanitized(body)
    IN  IF errors # <<>>
        THEN [saved |-> None,
              resp |-> Response(400, "Validation failed", None, errors, None)]
        ELSE IF ~CastOk(clean) \/ ~SchemaValid(NewTask(id, clean, user, t))
        THEN [saved |-> None,
              resp |-> Response(500, "Error creating task", None, <<>>,
                                Some("Task validation failed"))]
        ELSE [saved |-> Some(NewTask(id, clean, user, t)),
              resp |-> Response(201, "Task created successfully",
                                Some(NewTask(id, clean, user, t)), <<>>, None)]

\* A save stamps the document with the clock; the next save reads a later
\* clock, and MaxClock closes the run.
CreateTask ==
    /\ stage = "route"
    /\ req.method = "POST"
    /\ LET out == CreateOutcome(nextId, req.body, req.user[1], now)
       IN  /\ out.saved # None => nextId <= MaxTasks /\ now < MaxClock
           /\ resp' = out.resp
           /\ IF out.saved = None
              THEN UNCHANGED <<tasks, nextId, now>>
              ELSE /\ tasks' = With(tasks, out.saved[1])
                   /\ nextId' = nextId + 1
                   /\ now' = now + 1
    /\ stage' = "done"
    /\ UNCHANGED <<localStorage, dashboard, inflight, users, issued, req>>

(***************************************************************************)
(* PUT /:id                                                                *)
(***************************************************************************)
\* Variant: the document is rebuilt from the body as on create.
AssignWholeBody(task, body, t) ==
    [task EXCEPT
        !.title = IF Has(body, "title") THEN Trim(body["title"]) ELSE @,
        !.description = IF Has(body, "description")
                        THEN Some(Trim(body["description"])) ELSE @,
        !.status = IF Has(body, "status") THEN body["status"] ELSE "pending",
        !.priority = IF Has(body, "priority") THEN body["priority"] ELSE "medium",
        !.dueDate = IF Has(body, "dueDate")
                    THEN Some(ToDate(body["dueDate"])) ELSE @,
        !.user = IF Has(body, "user") THEN body["user"] ELSE @,
        !.createdAt = t,
        !.updatedAt = t]

\* Variant: a status is assigned only when it moves the task forward.
AssignForwardOnly(task, body, t) ==
    LET Rank(st) == CASE st = "pending" -> 1 [] st = "in-progress" -> 2
                      [] OTHER -> 3
    IN  [task EXCEPT
        !.title = IF Has(body, "title") /\ body["title"] # <<>>
                  THEN Trim(body["title"]) ELSE @,
        !.description = IF Has(body, "description")
                        THEN Some(Trim(body["description"])) ELSE @,
        !.status = IF Has(body, "status") /\ body["status"] # ""
                      /\ Rank(body["status"]) >= Rank(@)
                   THEN body["status"] ELSE @,
        !.priority = IF Has(body, "priority") /\ body["priority"] # ""
                     THEN body["priority"] ELSE @,
        !.dueDate = IF Has(body, "dueDate")
                    THEN Some(ToDate(body["dueDate"])) ELSE @,
        !.updatedAt = t]

\* Variant: the pre-save hook does not stamp updatedAt.
AssignWithoutStamp(task, body, t) ==
    [task EXCEPT
        !.title = IF Has(body, "title") /\ body["title"] # <<>>
                  THEN Trim(body["title"]) ELSE @,
        !.description = IF Has(body, "description")
                        THEN Some(Trim(body["description"])) ELSE @,
        !.status = IF Has(body, "status") /\ body["status"] # ""
                   THEN body["status"] ELSE @,
        !.priority = IF Has(body, "priority") /\ body["priority"] # ""
                     THEN body["priority"] ELSE @,
        !.dueDate = IF Has(body, "dueDate")
                    THEN Some(ToDate(body["dueDate"])) ELSE @]

\* the five conditional assignments, then the stamp of the pre-save hook
Assign(task, body, t) ==
    [task EXCEPT
        !.title = IF Has(body, "title") /\ body["title"] # <<>>
                  THEN Trim(body["title"]) ELSE @,
        !.description = IF Has(body, "description")
                        THEN Some(Trim(body["description"])) ELSE @,
        !.status = IF Has(body, "status") /\ body["status"] # ""
                   THEN body["status"] ELSE @,
        !.priority = IF Has(body, "priority") /\ body["priority"] # ""
                     THEN body["priority"] ELSE @,
        !.dueDate = IF Has(body, "dueDate")
                    THEN Some(ToDate(body["dueDate"])) ELSE @,
        !.updatedAt = t]

\* outcome of the PUT handler: the response and the document saved, if any
UpdateOutcome(ts, id, body, user, t) ==
    LET errors == validationResult(body, TRUE)
        clean == Sanitized(body)
        task == findOne(ts, id, user)
    IN  IF errors # <<>>
        THEN [saved |-> None,
              resp |-> Response(400, "Validation failed", None, errors, None)]
        ELSE IF task = None
        THEN [saved |-> None, resp |-> Fail(404, "Task not found")]
        ELSE IF ~CastOk(clean) \/ ~SchemaValid(Assign(task[1], clean, t))
        THEN [saved |-> None,
              resp |-> Response(500, "Error updating task", None, <<>>,
                                Some("Task validation failed"))]
        ELSE [saved |-> Some(Assign(task[1], clean, t)),
              resp |-> Response(200, "Task updated successfully",
                                Some(Assign(task[1], clean, t)), <<>>, None)]

UpdateTask ==
    /\ stage = "route"
    /\ req.method = "PUT"
    /\ LET out == UpdateOutcome(tasks, req.id, req.body, req.user[1], now)
       IN  /\ out.saved # None => now < MaxClock
           /\ resp' = out.resp
           /\ IF out.saved = None
              THEN UNCHANGED <<tasks, now>>
              ELSE /\ tasks' = With(tasks, out.saved[1])
                   /\ now' = now + 1
    /\ stage' = "done"
    /\ UNCHANGED <<localStorage, dashboard, inflight, users, issued, nextId, req>>

(***************************************************************************)
(* Requests                                                                *)
(***************************************************************************)
\* method names the route: GET, PUT and DELETE are the routes of /:id, POST
\* is POST /, LIST is GET / and SEARCH is GET /search
Request(method, id, body, authorization) ==
    [method |-> method, id |-> id, body |-> body, query |-> <<>>,
     authorization |-> authorization, user |-> None]
NoRequest == Request("", 0, <<>>, NoHeader)

BuyMilk == <<"B", "u", "y", " ", "m", "i", "l", "k">>
CallBob == <<"C", "a", "l", "l", " ", "B", "o", "b">>
Note == <<"2", "%">>
Padded(s) == <<" ">> \o s \o <<" ", " ">>

CreateBodies ==
    { [title |-> BuyMilk],
      [title |-> Padded(BuyMilk), description |-> Padded(Note),
       status |-> "in-progress", priority |-> "high",
       dueDate |-> "2025-01-01"],
      [title |-> <<"a", "b">>, status |-> "done"] }

UpdateBodies ==
    { [status |-> "completed", user |-> "u2"],
      [title |-> Padded(CallBob), description |-> <<>>,
       priority |-> "low", dueDate |-> "2025-12-31"],
      <<>>,
      [priority |-> "urgent"] }

TaskIds == 1..MaxTasks

TaskRequests(hdr) ==
    {Request("GET", i, <<>>, hdr) : i \in TaskIds}
        \cup {Request("DELETE", i, <<>>, hdr) : i \in TaskIds}
        \cup {Request("POST", 0, b, hdr) : b \in CreateBodies}
        \cup {Request("PUT", i, b, hdr) : i \in TaskIds, b \in UpdateBodies}

\* a client sends a task request with the token it holds, or with none
Arrive ==
    /\ stage \in {"idle", "done"}
    /\ \E hdr \in {Bearer(tk) : tk \in issued} \cup {NoHeader} :
         \E r \in TaskRequests(hdr) : req' = r
    /\ resp' = NoResponse
    /\ stage' = "protect"
    /\ UNCHANGED <<localStorage, dashboard, inflight, users, issued, tasks, nextId, now>>

\* the PUT handlers running beside the pipeline: none has started
Slots == {"a", "b"}
IdleUpdate ==
    [pc |-> "idle", id |-> 0, body |-> <<>>, user |-> "", task |-> None,
     resp |-> NoResponse, savedAt |-> 0]
NoUpdates == [s \in Slots |-> IdleUpdate]

\* the browser: nothing stored, and a Dashboard with no task and no handler
\* called
NoStorage == [token |-> None, user |-> None]
Calls == {"h1", "h2"}
IdleCall ==
    [pc |-> "idle", kind |-> "", id |-> 0, body |-> <<>>, closure |-> <<>>,
     authorization |-> NoHeader, resp |-> NoResponse]
NoDashboard == [tasks |-> <<>>, calls |-> [h \in Calls |-> IdleCall]]

(***************************************************************************)
(* Task routes behind the gate, both users logged in at day 0              *)
(***************************************************************************)
Init ==
    /\ users = Users
    /\ issued = {generateToken(u, 0) : u \in Users}
    /\ tasks = <<>>
    /\ nextId = 1
    /\ now = 0
    /\ req = NoRequest
    /\ resp = NoResponse
    /\ stage = "idle"
    /\ inflight = NoUpdates
    /\ localStorage = NoStorage
    /\ dashboard = NoDashboard

Next ==
    \/ Arrive
    \/ Protect
    \/ GetTask
    \/ CreateTask
    \/ UpdateTask
    \/ DeleteTask

Spec == Init /\ [][Next]_vars

(***************************************************************************)
(* The gate under every kind of token: logins, passing time, user removal  *)
(***************************************************************************)
\* login / signup answer with generateToken(user._id)
Login ==
    /\ Cardinality(issued) < MaxLogins
    /\ \E u \in users : issued' = issued \cup {generateToken(u, now)}
    /\ UNCHANGED <<localStorage, dashboard, inflight, users, tasks, nextId, now, req, resp, stage>>

\* the admin path that deletes a user record
RemoveUser ==
    /\ \E u \in users : users' = users \ {u}
    /\ UNCHANGED <<localStorage, dashboard, inflight, issued, tasks, nextId, now, req, resp, stage>>

\* the days sampled: the first days, and the days around a token's expiration
Days == {d \in 0..(TokenDays + MaxClock) : d % TokenDays <= MaxClock}

\* time passes
Tick ==
    /\ \E d \in Days : d > now /\ now' = d
    /\ UNCHANGED <<localStorage, dashboard, inflight, users, issued, tasks, nextId, req, resp, stage>>

\* a token signed with another key, claiming a user and a far expiration
Forged(u) == Jwt(u, 0, 2 * (TokenDays + MaxClock), "attacker-key")

\* the headers anyone can send: tokens held, forged, garbled, missing
Headers ==
    {Bearer(tk) : tk \in issued}
        \cup {Bearer(Forged("u1")), Bearer(Garbage), NoHeader,
              [scheme |-> "Bearer", token |-> None],
              [scheme |-> "Basic", token |-> Some(Garbage)]}

ArriveAuth ==
    /\ stage \in {"idle", "done"}
    /\ \E hdr \in Headers :
         \E m \in {"GET", "DELETE"} : req' = Request(m, 1, <<>>, hdr)
    /\ resp' = NoResponse
    /\ stage' = "protect"
    /\ UNCHANGED <<localStorage, dashboard, inflight, users, issued, tasks, nextId, now>>

\* u1 has created one task at day 0; nobody is logged in
InitAuth ==
    /\ users = Users
    /\ issued = {}
    /\ tasks = With(<<>>, NewTask(1, [title |-> BuyMilk], "u1", 0))
    /\ nextId = 2
    /\ now = 1
    /\ req = NoRequest
    /\ resp = NoResponse
    /\ stage = "idle"
    /\ inflight = NoUpdates
    /\ localStorage = NoStorage
    /\ dashboard = NoDashboard

NextAuth ==
    \/ Login
    \/ RemoveUser
    \/ Tick
    \/ ArriveAuth
    \/ Protect
    \/ GetTask
    \/ DeleteTask

SpecAuth == InitAuth /\ [][NextAuth]_vars

(***************************************************************************)
(* POST / under every combination of valid and invalid fields              *)
(***************************************************************************)
TitleInputs ==
    { <<"a", "b">>, <<"a", "b", "c">>, Padded(<<"a">>),
      Rep("x", TitleMax), Padded(Rep("x", TitleMax)), Rep("x", TitleMax + 1) }
DescriptionInputs == { Rep("y", DescMax), Rep("y", DescMax + 1) }
StatusInputs == { "completed", "done", "" }
PriorityInputs == { "low", "urgent" }

\* the bodies that supply each field in set fs, with every choice of values
BodiesOver(fs) ==
    LET T == IF "title" \in fs THEN TitleInputs ELSE {<<>>}
        D == IF "description" \in fs THEN DescriptionInputs ELSE {<<>>}
        S == IF "status" \in fs THEN StatusInputs ELSE {""}
        P == IF "priority" \in fs THEN PriorityInputs ELSE {""}
    IN  { [f \in fs |-> CASE f = "title" -> t
                          [] f = "description" -> d
                          [] f = "status" -> st
                          [] OTHER -> pr]
          : t \in T, d \in D, st \in S, pr \in P }

\* the rules of create a body breaks, by field (lengths are those of the
\* trimmed text, the text a task stores)
Violations(body) ==
    {f \in {"title"} :
        \/ ~Has(body, f)
        \/ Len(Trim(body[f])) < TitleMin
        \/ Len(Trim(body[f])) > TitleMax}
    \cup {f \in {"description"} : Has(body, f) /\ Len(Trim(body[f])) > DescMax}
    \cup {f \in {"status"} : Has(body, f) /\ body[f] \notin StatusEnum}
    \cup {f \in {"priority"} : Has(body, f) /\ body[f] \notin PriorityEnum}

\* every body that breaks some rule, one that breaks none, and one whose
\* due date is no date
ValidateBodies ==
    {b \in UNION {BodiesOver(fs) :
                    fs \in SUBSET {"title", "description", "status", "priority"}} :
        Violations(b) # {}}
    \cup {[title |-> BuyMilk], [title |-> BuyMilk, dueDate |-> "someday"]}

ArriveValidate ==
    /\ stage \in {"idle", "done"}
    /\ \E b \in ValidateBodies :
         req' = Request("POST", 0, b, Bearer(generateToken("u1", 0)))
    /\ resp' = NoResponse
    /\ stage' = "protect"
    /\ UNCHANGED <<localStorage, dashboard, inflight, users, issued, tasks, nextId, now>>

NextValidate ==
    \/ ArriveValidate
    \/ Protect
    \/ CreateTask

SpecValidate == Init /\ [][NextValidate]_vars

(***************************************************************************)
(* GET / and GET /search                                                   *)
(***************************************************************************)
\* the characters of the texts used, in code-point order (MongoDB compares
\* strings by code point when no collation is set)
CharOrder ==
    <<" ", "%", "2", "B", "C", "a", "b", "c", "i", "k", "l", "m", "o", "u",
      "x", "y", "z">>
Code(c) == CHOOSE i \in DOMAIN CharOrder : CharOrder[i] = c

RECURSIVE StrLeq(_, _)
StrLeq(a, b) ==
    IF a = <<>> THEN TRUE
    ELSE IF b = <<>> THEN FALSE
    ELSE IF Code(Head(a)) # Code(Head(b)) THEN Code(Head(a)) < Code(Head(b))
    ELSE StrLeq(Tail(a), Tail(b))

\* order of two values of a field in an ascending sort; a missing value
\* sorts before every value
KeyLeq(field, a, b) ==
    CASE field = "title" -> StrLeq(a.title, b.title)
      [] field = "dueDate" ->
           \/ a.dueDate = None
           \/ b.dueDate # None /\ a.dueDate[1] <= b.dueDate[1]
      [] OTHER -> a.createdAt <= b.createdAt

\* Task.find(filter): the ids of the documents equal to filter on its fields
find(ts, filter) ==
    {i \in DOMAIN ts : \A f \in DOMAIN filter : ts[i][f] = filter[f]}

\* .sort(option): every order of the documents found that the sort may give;
\* documents with equal keys come in any order
sort(ts, ids, option) ==
    LET n == Cardinality(ids)
        orders == {o \in [1..n -> ids] :
                     /\ \A j, k \in 1..n : j # k => o[j] # o[k]
                     /\ \A k \in 1..(n - 1) :
                          IF option.dir = 1
                          THEN KeyLeq(option.field, ts[o[k]], ts[o[k + 1]])
                          ELSE KeyLeq(option.field, ts[o[k + 1]], ts[o[k]])}
    IN  {[k \in 1..n |-> ts[o[k]]] : o \in orders}

\* a query parameter is given and truthy
Given(query, f) == Has(query, f) /\ query[f] # ""

\* Variant: the filter of GET / does not name the user.
listFilterAllUsers(query, user) ==
    [f \in {g \in {"status", "priority"} : Given(query, g)} |-> query[f]]

\* the filter GET / builds: the user, and status and priority when given
listFilter(query, user) ==
    [f \in {"user"} \cup {g \in {"status", "priority"} : Given(query, g)} |->
        IF f = "user" THEN user ELSE query[f]]

\* Variant: title and dueDate fall to the default.
sortOptionByDateOnly(query) ==
    IF Has(query, "sort") /\ query["sort"] = "oldest"
    THEN [field |-> "createdAt", dir |-> 1]
    ELSE [field |-> "createdAt", dir |-> -1]

\* the sort option GET / chooses
sortOption(query) ==
    IF Has(query, "sort") /\ query["sort"] = "oldest"
    THEN [field |-> "createdAt", dir |-> 1]
    ELSE IF Has(query, "sort") /\ query["sort"] = "title"
    THEN [field |-> "title", dir |-> 1]
    ELSE IF Has(query, "sort") /\ query["sort"] = "dueDate"
    THEN [field |-> "dueDate", dir |-> 1]
    ELSE [field |-> "createdAt", dir |-> -1]

\* the 200 of GET / and GET /search
ListResponse(docs) ==
    [Response(200, "", None, <<>>, None) EXCEPT
        !.tasks = docs, !.count = Some(Len(docs))]

\* the responses GET / may give
ListTasksResponses(ts, query, user) ==
    {ListResponse(docs) :
        docs \in sort(ts, find(ts, listFilter(query, user)), sortOption(query))}

ListTasks ==
    /\ stage = "route"
    /\ req.method = "LIST"
    /\ resp' \in ListTasksResponses(tasks, req.query, req.user[1])
    /\ stage' = "done"
    /\ UNCHANGED <<localStorage, dashboard, inflight, users, issued, tasks, nextId, now, req>>

\* Task.getTasksByUser(userId, filters): the results it may give
getTasksByUser(ts, userId, filters) ==
    sort(ts, find(ts, listFilter(filters, userId)),
         [field |-> "createdAt", dir |-> -1])

\* the terms of a text as the text index sees them: split at delimiters, with
\* case folded (stemming and stop words are left out)
IsDelimiter(c) == c \in {" ", "%"}
Lower(c) == IF c = "B" THEN "b" ELSE IF c = "C" THEN "c" ELSE c

RECURSIVE TermsFrom(_, _)
TermsFrom(s, cur) ==
    IF s = <<>> THEN (IF cur = <<>> THEN {} ELSE {cur})
    ELSE IF IsDelimiter(Head(s))
    THEN (IF cur = <<>> THEN {} ELSE {cur}) \cup TermsFrom(Tail(s), <<>>)
    ELSE TermsFrom(Tail(s), Append(cur, Lower(Head(s))))
Terms(s) == TermsFrom(s, <<>>)

\* $text: { $search: q } on the index of title and description: a document
\* matches when it holds one of the terms of q
textSearch(doc, q) ==
    Terms(q) \cap (Terms(doc.title)
                     \cup (IF doc.description = None THEN {}
                           ELSE Terms(doc.description[1]))) # {}

\* Variant: the search filter does not name the user.
searchFindAllUsers(ts, q, user) ==
    {i \in DOMAIN ts : textSearch(ts[i], q)}

\* Task.find({ user, $text }) of GET /search
searchFind(ts, q, user) ==
    {i \in find(ts, [user |-> user]) : textSearch(ts[i], q)}

\* .sort({ score: { $meta: 'textScore' } }): the score is MongoDB's; every
\* order of the documents found is taken as possible
sortByTextScore(ts, ids) ==
    LET n == Cardinality(ids)
        orders == {o \in [1..n -> ids] : \A j, k \in 1..n : j # k => o[j] # o[k]}
    IN  {[k \in 1..n |-> ts[o[k]]] : o \in orders}

\* the responses GET /search may give
SearchTasksResponses(ts, query, user) ==
    IF ~(Has(query, "q") /\ query["q"] # <<>>)
    THEN {Fail(400, "Search query is required")}
    ELSE {ListResponse(docs) :
            docs \in sortByTextScore(ts, searchFind(ts, query["q"], user))}

SearchTasks ==
    /\ stage = "route"
    /\ req.method = "SEARCH"
    /\ resp' \in SearchTasksResponses(tasks, req.query, req.user[1])
    /\ stage' = "done"
    /\ UNCHANGED <<localStorage, dashboard, inflight, users, issued, tasks, nextId, now, req>>

\* the queries of GET /: each sort key without filters, each filter without a
\* sort key, and one query with all three
SortInputs == {"newest", "oldest", "title", "dueDate", "priority", ""}
ListQueries ==
    {<<>>, [status |-> "in-progress", priority |-> "high", sort |-> "title"]}
        \cup {[sort |-> k] : k \in SortInputs}
        \cup {[status |-> st] : st \in {"pending", "completed", "done", ""}}
        \cup {[priority |-> pr] : pr \in {"medium", "low"}}
        \cup {[status |-> "pending", priority |-> "medium"]}

Milk == <<"m", "i", "l", "k">>
SearchQueries ==
    {<<>>, [q |-> <<>>], [q |-> Milk], [q |-> <<"B", "O", "B", " ">> \o Milk],
     [q |-> <<"z", "z">>], [q |-> <<" ">>]}

ListRequests(hdr) ==
    {[Request("LIST", 0, <<>>, hdr) EXCEPT !.query = qy] : qy \in ListQueries}
        \cup {[Request("SEARCH", 0, <<>>, hdr) EXCEPT !.query = qy] :
                 qy \in SearchQueries}

\* a logged-in client lists or searches, or writes a task with a valid body
ArriveList ==
    /\ stage \in {"idle", "done"}
    /\ \E hdr \in {Bearer(tk) : tk \in issued} :
         \E r \in ListRequests(hdr)
                   \cup {q \in TaskRequests(hdr) :
                           \/ q.method = "DELETE"
                           \/ /\ q.method \in {"POST", "PUT"}
                              /\ q.body # <<>>
                              /\ validationResult(q.body, q.method = "PUT") = <<>>} :
           req' = r
    /\ resp' = NoResponse
    /\ stage' = "protect"
    /\ UNCHANGED <<localStorage, dashboard, inflight, users, issued, tasks, nextId, now>>

NextList ==
    \/ ArriveList
    \/ Protect
    \/ ListTasks
    \/ SearchTasks
    \/ CreateTask
    \/ UpdateTask
    \/ DeleteTask

SpecList == Init /\ [][NextList]_vars

(***************************************************************************)
(* PUT /:id running beside other requests: the handler between its awaits  *)
(***************************************************************************)
\* the paths Mongoose marks modified: a path assigned the value the document
\* already has is not marked
modifiedPaths(task, assigned) == {f \in DOMAIN task : assigned[f] # task[f]}

\* Variant: save writes the whole document back, inserting it when absent.
saveWholeDocument(ts, task, assigned) ==
    [ok |-> TRUE, ts |-> With(ts, assigned)]

\* task.save() of a document read earlier: updateOne({ _id }, { $set }) with
\* the modified paths; when no document has the _id, DocumentNotFoundError
save(ts, task, assigned) ==
    IF task.id \notin DOMAIN ts
    THEN [ok |-> FALSE, ts |-> ts]
    ELSE [ok |-> TRUE,
          ts |-> [ts EXCEPT ![task.id] =
                    [f \in DOMAIN @ |->
                        IF f \in modifiedPaths(task, assigned)
                        THEN assigned[f] ELSE @[f]]]]

\* the bodies of the updates sent side by side
ConcurrentBodies ==
    { [status |-> "pending"], [status |-> "completed"],
      [title |-> Padded(CallBob)],
      [title |-> CallBob, status |-> "in-progress"],
      [priority |-> "urgent"] }

\* validation and findOne of a PUT by u1 behind the gate: a response, or the
\* document read
UpdateFindOne(s) ==
    /\ inflight[s].pc = "idle"
    /\ \E b \in ConcurrentBodies :
         LET errors == validationResult(b, TRUE)
             task == findOne(tasks, 1, "u1")
             started == [IdleUpdate EXCEPT !.id = 1, !.body = b, !.user = "u1"]
         IN  inflight' = [inflight EXCEPT ![s] =
               IF errors # <<>>
               THEN [started EXCEPT !.pc = "done",
                       !.resp = Response(400, "Validation failed", None,
                                         errors, None)]
               ELSE IF task = None
               THEN [started EXCEPT !.pc = "done",
                       !.resp = Fail(404, "Task not found")]
               ELSE [started EXCEPT !.pc = "found", !.task = task]]
    /\ UNCHANGED <<localStorage, dashboard, users, issued, tasks, nextId, now, req, resp, stage>>

\* the assignments and task.save() of that PUT, and its response
UpdateSave(s) ==
    /\ inflight[s].pc = "found"
    /\ now < MaxClock
    /\ LET task == inflight[s].task[1]
           clean == Sanitized(inflight[s].body)
           assigned == Assign(task, clean, now)
           saved == save(tasks, task, assigned)
       IN  IF ~CastOk(clean) \/ ~SchemaValid(assigned)
           THEN /\ inflight' = [inflight EXCEPT ![s].pc = "done",
                     ![s].resp = Response(500, "Error updating task", None,
                                          <<>>, Some("Task validation failed"))]
                /\ UNCHANGED <<tasks, now>>
           ELSE IF ~saved.ok
           THEN /\ inflight' = [inflight EXCEPT ![s].pc = "done",
                     ![s].resp = Response(500, "Error updating task", None,
                                          <<>>, Some("No document found"))]
                /\ UNCHANGED <<tasks, now>>
           ELSE /\ inflight' = [inflight EXCEPT ![s].pc = "done",
                     ![s].savedAt = now,
                     ![s].resp = Response(200, "Task updated successfully",
                                          Some(assigned), <<>>, None)]
                /\ tasks' = saved.ts
                /\ now' = now + 1
    /\ UNCHANGED <<localStorage, dashboard, users, issued, nextId, req, resp, stage>>

\* u1 reads or deletes the task while the updates run
ArriveBeside ==
    /\ stage \in {"idle", "done"}
    /\ \E m \in {"GET", "DELETE"} :
         req' = Request(m, 1, <<>>, Bearer(generateToken("u1", 0)))
    /\ resp' = NoResponse
    /\ stage' = "protect"
    /\ UNCHANGED <<localStorage, dashboard, inflight, users, issued, tasks, nextId, now>>

\* u1 has created one task at day 0
InitBeside ==
    /\ users = Users
    /\ issued = {generateToken("u1", 0)}
    /\ tasks = With(<<>>, NewTask(1, [title |-> BuyMilk], "u1", 0))
    /\ nextId = 2
    /\ now = 1
    /\ req = NoRequest
    /\ resp = NoResponse
    /\ stage = "idle"
    /\ inflight = NoUpdates
    /\ localStorage = NoStorage
    /\ dashboard = NoDashboard

NextBeside ==
    \/ \E s \in Slots : UpdateFindOne(s)
    \/ \E s \in Slots : UpdateSave(s)
    \/ ArriveBeside
    \/ Protect
    \/ GetTask
    \/ DeleteTask

SpecBeside == InitBeside /\ [][NextBeside]_vars

(***************************************************************************)
(* Creates and updates with values at and beyond every limit               *)
(***************************************************************************)
FieldCreateBodies ==
    {[title |-> t] : t \in TitleInputs}
        \cup {[title |-> BuyMilk, status |-> st] : st \in StatusInputs}
        \cup {[title |-> CallBob, status |-> st] :
                 st \in {"pending", "in-progress"}}
        \cup {[title |-> BuyMilk, description |-> d] : d \in DescriptionInputs}
        \cup {[title |-> BuyMilk, priority |-> pr] : pr \in PriorityInputs}
        \cup {[status |-> "pending"]}

FieldUpdateBodies ==
    {[title |-> t] : t \in TitleInputs \cup {<<>>}}
        \cup {[status |-> st] : st \in {"pending", "in-progress"} \cup StatusInputs}
        \cup {[description |-> d] : d \in DescriptionInputs \cup {<<>>}}
        \cup {[priority |-> pr] : pr \in PriorityInputs}
        \cup {[user |-> "u2"]}

\* u1 creates, updates and deletes
ArriveFields ==
    /\ stage \in {"idle", "done"}
    /\ \E r \in {Request("POST", 0, b, Bearer(generateToken("u1", 0))) :
                    b \in FieldCreateBodies}
               \cup {Request("PUT", i, b, Bearer(generateToken("u1", 0))) :
                        i \in TaskIds, b \in FieldUpdateBodies}
               \cup {Request("DELETE", i, <<>>, Bearer(generateToken("u1", 0))) :
                        i \in TaskIds} :
         req' = r
    /\ resp' = NoResponse
    /\ stage' = "protect"
    /\ UNCHANGED <<localStorage, dashboard, inflight, users, issued, tasks, nextId, now>>

\* the collection is empty and the clock leaves room for three saves
InitFields ==
    /\ users = Users
    /\ issued = {generateToken("u1", 0)}
    /\ tasks = <<>>
    /\ nextId = 1
    /\ now = MaxClock - 3
    /\ req = NoRequest
    /\ resp = NoResponse
    /\ stage = "idle"
    /\ inflight = NoUpdates
    /\ localStorage = NoStorage
    /\ dashboard = NoDashboard

NextFields ==
    \/ ArriveFields
    \/ Protect
    \/ CreateTask
    \/ UpdateTask
    \/ DeleteTask

SpecFields == InitFields /\ [][NextFields]_vars

(***************************************************************************)
(* The task routes when the database fails                                 *)
(***************************************************************************)
\* the message of each route's catch block
catchMessage(method) ==
    CASE method = "LIST" -> "Error fetching tasks"
      [] method = "SEARCH" -> "Error searching tasks"
      [] method = "GET" -> "Error fetching task"
      [] method = "POST" -> "Error creating task"
      [] method = "PUT" -> "Error updating task"
      [] OTHER -> "Error deleting task"

\* the body a catch block sends: success false, message, error: error.message
catchResponse(method, errorMessage) ==
    Response(500, catchMessage(method), None, <<>>, Some(errorMessage))

\* error.message of the errors the driver rejects with
StorageErrors ==
    {"connect ECONNREFUSED 127.0.0.1:27017",
     "Operation tasks.find() buffering timed out after 10000ms"}

\* the handler has reached its call of the Task model
ReachesStore(r) ==
    CASE r.method \in {"POST", "PUT"} ->
           validationResult(r.body, r.method = "PUT") = <<>>
      [] r.method = "SEARCH" -> Has(r.query, "q") /\ r.query["q"] # <<>>
      [] OTHER -> TRUE

\* the call of the Task model rejects: the catch block of the route answers
StorageFailure ==
    /\ stage = "route"
    /\ ReachesStore(req)
    /\ \E e \in StorageErrors : resp' = catchResponse(req.method, e)
    /\ stage' = "done"
    /\ UNCHANGED <<localStorage, dashboard, inflight, users, issued, tasks, nextId, now, req>>

NextFail ==
    \/ Arrive
    \/ ArriveList
    \/ Protect
    \/ ListTasks
    \/ SearchTasks
    \/ GetTask
    \/ CreateTask
    \/ UpdateTask
    \/ DeleteTask
    \/ StorageFailure

SpecFail == Init /\ [][NextFail]_vars

(***************************************************************************)
(* The browser: utils/api.js and the handlers of pages/Dashboard.jsx       *)
(***************************************************************************)
\* the request interceptor: the Authorization header of a request
requestInterceptor(ls) ==
    IF ls.token # None THEN Bearer(ls.token[1]) ELSE NoHeader

\* Variant: a 401 removes the token and keeps the user.
responseInterceptorTokenOnly(ls, status) ==
    IF status = 401 THEN [ls EXCEPT !.token = None] ELSE ls

\* the response interceptor: what a response of this status leaves stored
responseInterceptor(ls, status) ==
    IF status = 401 THEN [ls EXCEPT !.token = None, !.user = None] ELSE ls

setAuthData(ls, token, user) ==
    [ls EXCEPT !.token = Some(token), !.user = Some(user)]
isAuthenticated(ls) == ls.token # None
logout(ls) == [ls EXCEPT !.token = None, !.user = None]

\* the list each handler passes to setTasks, from the tasks of its closure
afterCreate(closure, task) == <<task>> \o closure
afterUpdate(closure, id, task) ==
    [k \in DOMAIN closure |-> IF closure[k].id = id THEN task ELSE closure[k]]
afterDelete(closure, id) == SelectSeq(closure, LAMBDA t : t.id # id)

\* what the user submits: a new task, an edit of a listed task, or the
\* confirmed deletion of a listed task
HandlerCalls ==
    {[kind |-> "create", id |-> 0, body |-> b] :
        b \in {[title |-> CallBob], [title |-> <<"a", "b">>]}}
    \cup {[kind |-> k.kind, id |-> dashboard.tasks[j].id, body |-> k.body] :
            j \in DOMAIN dashboard.tasks,
            k \in {[kind |-> "update", body |-> [status |-> "completed"]],
                    [kind |-> "delete", body |-> <<>>]}}

\* a handler is called: it closes over the tasks of this render, and its
\* request leaves with the token stored now
Call(h) ==
    /\ dashboard.calls[h].pc = "idle"
    /\ \E c \in HandlerCalls :
         dashboard' = [dashboard EXCEPT !.calls[h] =
            [IdleCall EXCEPT !.pc = "called", !.kind = c.kind, !.id = c.id,
                             !.body = c.body, !.closure = dashboard.tasks,
                             !.authorization = requestInterceptor(localStorage)]]
    /\ UNCHANGED <<localStorage, inflight, users, issued, tasks, nextId, now,
                   req, resp, stage>>

\* the request of a call reaches the server
Send(h) ==
    /\ dashboard.calls[h].pc = "called"
    /\ stage \in {"idle", "done"}
    /\ \A g \in Calls : dashboard.calls[g].pc # "sent"
    /\ LET c == dashboard.calls[h]
           method == CASE c.kind = "create" -> "POST"
                       [] c.kind = "update" -> "PUT"
                       [] OTHER -> "DELETE"
       IN  req' = Request(method, c.id, c.body, c.authorization)
    /\ resp' = NoResponse
    /\ stage' = "protect"
    /\ dashboard' = [dashboard EXCEPT !.calls[h].pc = "sent"]
    /\ UNCHANGED <<localStorage, inflight, users, issued, tasks, nextId, now>>

\* the response comes back: the response interceptor runs, then the handler
\* resumes after its await, or in its catch block when the status is no 2xx
Receive(h) ==
    /\ dashboard.calls[h].pc = "sent"
    /\ stage = "done"
    /\ localStorage' = responseInterceptor(localStorage, resp.status)
    /\ LET c == dashboard.calls[h]
           list == IF resp.status \notin {200, 201} THEN dashboard.tasks
                   ELSE CASE c.kind = "create" ->
                               afterCreate(c.closure, resp.task[1])
                          [] c.kind = "update" ->
                               afterUpdate(c.closure, c.id, resp.task[1])
                          [] OTHER -> afterDelete(c.closure, c.id)
       IN  dashboard' = [dashboard EXCEPT !.tasks = list,
                            !.calls[h].pc = "done", !.calls[h].resp = resp]
    /\ UNCHANGED <<inflight, users, issued, tasks, nextId, now, req, resp,
                   stage>>

\* the login page stores the token and the user of a login response
SetAuthData ==
    /\ "u1" \in users
    /\ localStorage' = setAuthData(localStorage, generateToken("u1", now), "u1")
    /\ issued' = issued \cup {generateToken("u1", now)}
    /\ UNCHANGED <<dashboard, inflight, users, tasks, nextId, now, req, resp,
                   stage>>

Logout ==
    /\ localStorage' = logout(localStorage)
    /\ UNCHANGED <<dashboard, inflight, users, issued, tasks, nextId, now, req,
                   resp, stage>>

\* u1 is logged in, owns one task created at day 0, and the Dashboard has
\* fetched it
InitClient ==
    /\ users = Users
    /\ issued = {generateToken("u1", 0)}
    /\ tasks = With(<<>>, NewTask(1, [title |-> BuyMilk], "u1", 0))
    /\ nextId = 2
    /\ now = 1
    /\ req = NoRequest
    /\ resp = NoResponse
    /\ stage = "idle"
    /\ inflight = NoUpdates
    /\ localStorage = setAuthData(NoStorage, generateToken("u1", 0), "u1")
    /\ dashboard = [NoDashboard EXCEPT
                      !.tasks = <<NewTask(1, [title |-> BuyMilk], "u1", 0)>>]

NextClient ==
    \/ \E h \in Calls : Call(h)
    \/ \E h \in Calls : Send(h)
    \/ \E h \in Calls : Receive(h)
    \/ SetAuthData
    \/ Logout
    \/ RemoveUser
    \/ Protect
    \/ CreateTask
    \/ UpdateTask
    \/ DeleteTask

SpecClient == InitClient /\ [][NextClient]_vars

(***************************************************************************)
(* Properties                                                              *)
(***************************************************************************)
\* the token a request carries, and the step in which the gate decides
Token == req.authorization.token[1]
CarriesJwt ==
    /\ req.authorization.scheme = "Bearer"
    /\ req.authorization.token # None
    /\ Token.kind = "jwt"
GateDecides == stage = "protect" /\ stage' # "protect"
TaskFields == {"title", "description", "status", "priority", "dueDate"}

\* C1: GET /:id of an existing task answers its owner with 200 and the task,
\* and answers every other authenticated user with 404 Task not found.
OwnerReadsOthersGetNotFound ==
    (stage = "done" /\ req.method = "GET" /\ req.user # None
        /\ req.id \in DOMAIN tasks)
    => IF tasks[req.id].user = Token.id
       THEN resp.status = 200 /\ resp.task = Some(tasks[req.id])
       ELSE resp = Fail(404, "Task not found")

OtherUserGot404 ==
    /\ stage = "done" /\ req.method = "GET" /\ req.user # None
    /\ req.id \in DOMAIN tasks
    /\ tasks[req.id].user # Token.id
    /\ resp.status = 404

\* C2: a PUT or DELETE by an authenticated user who does not own the task
\* named leaves the whole collection as it was.
NonOwnerWriteChangesNothing ==
    [][ (stage = "route" /\ req.method \in {"PUT", "DELETE"}
            /\ req.id \in DOMAIN tasks
            /\ tasks[req.id].user # req.user[1])
        => tasks' = tasks ]_vars

NonOwnerDeleteAnswered ==
    /\ stage = "done" /\ req.method = "DELETE" /\ req.user # None
    /\ req.id \in DOMAIN tasks
    /\ tasks[req.id].user # req.user[1]
    /\ resp.status = 404

\* C3: for get, delete and update with a valid body, a user gets the same
\* response for an id that does not exist as for an id of another user's task.
NotFoundIsExistenceBlind ==
    \A u \in Users :
      \A i \in TaskIds \ DOMAIN tasks :
        \A j \in {k \in DOMAIN tasks : tasks[k].user # u} :
          /\ GetTaskResponse(tasks, i, u) = GetTaskResponse(tasks, j, u)
          /\ DeleteTaskResponse(tasks, i, u) = DeleteTaskResponse(tasks, j, u)
          /\ \A b \in {c \in UpdateBodies : validationResult(c, TRUE) = <<>>} :
               UpdateOutcome(tasks, i, b, u, now).resp
                 = UpdateOutcome(tasks, j, b, u, now).resp

NonOwnerUpdateBesideMissingId ==
    /\ stage = "done" /\ req.method = "PUT" /\ req.user # None
    /\ validationResult(req.body, TRUE) = <<>>
    /\ req.id \in DOMAIN tasks
    /\ tasks[req.id].user # req.user[1]
    /\ resp = Fail(404, "Task not found")
    /\ TaskIds \ DOMAIN tasks # {}

\* C4: a request is in a task handler only after protect verified its bearer
\* token and attached the existing user it names; the collection is read or
\* written by handlers only.
GateBeforeHandlers ==
    /\ [](stage = "route"
            => /\ CarriesJwt
               /\ Token.key = JWT_SECRET
               /\ req.user = Some(Token.id))
    /\ [][ (stage # "route" /\ stage' = "route")
            => /\ stage = "protect"
               /\ now < Token.exp
               /\ Token.id \in users ]_vars
    /\ [][ (tasks' # tasks \/ (resp' # resp /\ resp'.status \notin {0, 401}))
            => stage = "route" /\ req.user # None ]_vars

HandlerRanBehindGate ==
    /\ stage = "done" /\ req.method = "DELETE"
    /\ resp.status = 200
    /\ 1 \notin DOMAIN tasks

\* C5: all bearer tokens that fail verification, whatever the reason, get
\* the same response from the gate.
VerificationFailuresLookAlike ==
    \A h1, h2 \in {h \in Headers : h.scheme = "Bearer"} :
        (~jwtVerify(h1.token, JWT_SECRET, now).ok
            /\ ~jwtVerify(h2.token, JWT_SECRET, now).ok)
        => protect(Request("GET", 1, <<>>, h1), users, now).resp
             = protect(Request("GET", 1, <<>>, h2), users, now).resp

\* C6 as stated: the gate accepts a token if and only if it is signed with
\* the server secret and the time is before issuance + 30 days.
AcceptedIffSignedAndFresh ==
    [][ (GateDecides /\ CarriesJwt)
        => (stage' = "route"
              <=> (Token.key = JWT_SECRET /\ now < Token.iat + TokenDays)) ]_vars

\* C6 amended: the gate accepts a token if and only if it is signed with the
\* server secret, the time is before issuance + 30 days and the user it names
\* exists; it then attaches that user, and a signed token presented at or
\* after its expiration is refused as expired.
AcceptedIffSignedFreshAndUserExists ==
    /\ [](\A tk \in issued : tk.exp = tk.iat + TokenDays)
    /\ [][ (GateDecides /\ CarriesJwt)
            => /\ stage' = "route"
                    <=> (/\ Token.key = JWT_SECRET
                         /\ now < Token.iat + TokenDays
                         /\ Token.id \in users)
               /\ stage' = "route" => req'.user = Some(Token.id)
               /\ (Token.key = JWT_SECRET /\ now >= Token.iat + TokenDays)
                    => resp' = Fail(401, "Token expired") ]_vars

ExpiredTokenRefused ==
    /\ stage = "done" /\ CarriesJwt
    /\ Token \in issued
    /\ resp = Fail(401, "Token expired")

\* C7: once a user record is removed, a request with that user's unexpired,
\* server-signed token is answered 401 by the gate and reaches no handler.
RemovedUserLockedOut ==
    [][ (GateDecides /\ CarriesJwt /\ Token \in issued
            /\ now < Token.exp /\ Token.id \notin users)
        => (stage' = "done" /\ resp'.status = 401) ]_vars

RemovedUserRefused ==
    /\ stage = "done" /\ CarriesJwt
    /\ Token \in issued
    /\ Token.id \notin users
    /\ resp = Fail(401, "User not found")

\* C8: a successful PUT changes, in the task it names, only fields of
\* {title, description, status, priority, dueDate} that the body supplies
\* (and updatedAt); id, owner and createdAt stay, and so does every other task.
UpdateChangesOnlySuppliedFields ==
    [][ (stage = "route" /\ req.method = "PUT" /\ resp'.status = 200)
        => /\ DOMAIN tasks' = DOMAIN tasks
           /\ \A i \in DOMAIN tasks \ {req.id} : tasks'[i] = tasks[i]
           /\ tasks'[req.id].id = tasks[req.id].id
           /\ tasks'[req.id].user = tasks[req.id].user
           /\ tasks'[req.id].createdAt = tasks[req.id].createdAt
           /\ \A f \in TaskFields :
                ~Has(req.body, f) => tasks'[req.id][f] = tasks[req.id][f] ]_vars

PartialUpdateBesideOtherTask ==
    /\ stage = "done" /\ req.method = "PUT" /\ resp.status = 200
    /\ Cardinality(DOMAIN tasks) = 2
    /\ Has(req.body, "user")
    /\ req.body["user"] # req.user[1]
    /\ ~Has(req.body, "title")

\* the task a get by the creator returns right after a create
GotAfterCreate == GetTaskResponse(tasks, resp.task[1].id, req.user[1])
Created == stage = "done" /\ req.method = "POST" /\ resp.status = 201

\* C9 as stated: create then get returns every client-supplied field as it
\* was supplied (the due date as the date supplied), pending and medium for
\* an omitted status and priority.
CreateThenGetEqualsInput ==
    Created
    => /\ GotAfterCreate.status = 200
       /\ LET t == GotAfterCreate.task[1]
              b == req.body
          IN  /\ t.title = b["title"]
              /\ t.description = Get(b, "description")
              /\ t.status = IF Has(b, "status") THEN b["status"] ELSE "pending"
              /\ t.priority = IF Has(b, "priority") THEN b["priority"] ELSE "medium"
              /\ t.dueDate = IF Has(b, "dueDate")
                             THEN Some(ToDate(b["dueDate"])) ELSE None

\* C9 amended: create then get returns every client-supplied field as it was
\* supplied, title and description with the whitespace at their ends removed,
\* pending and medium for an omitted status and priority.
CreateThenGetEqualsTrimmedInput ==
    Created
    => /\ GotAfterCreate.status = 200
       /\ LET t == GotAfterCreate.task[1]
              b == req.body
          IN  /\ t.title = Trim(b["title"])
              /\ t.description = IF Has(b, "description")
                                 THEN Some(Trim(b["description"])) ELSE None
              /\ t.status = IF Has(b, "status") THEN b["status"] ELSE "pending"
              /\ t.priority = IF Has(b, "priority") THEN b["priority"] ELSE "medium"
              /\ t.dueDate = IF Has(b, "dueDate")
                             THEN Some(ToDate(b["dueDate"])) ELSE None
              /\ t.user = Token.id

CreatedFromPaddedInput ==
    /\ Created
    /\ req.body["title"] # Trim(req.body["title"])
    /\ Has(req.body, "status")
    /\ GotAfterCreate.task[1].title = BuyMilk

\* C10: a create whose body breaks a rule is answered 400 Validation failed
\* with an error for every field that breaks one, and adds no task.
CreateListsEveryViolation ==
    [][ (stage = "route" /\ req.method = "POST" /\ Violations(req.body) # {})
        => /\ resp'.status = 400
           /\ resp'.message = "Validation failed"
           /\ {resp'.errors[k].path : k \in DOMAIN resp'.errors}
                = Violations(req.body)
           /\ tasks' = tasks
           /\ nextId' = nextId ]_vars

AllFourFieldsRejected ==
    /\ stage = "done" /\ req.method = "POST"
    /\ Violations(req.body) = {"title", "description", "status", "priority"}
    /\ resp.status = 400
    /\ Len(resp.errors) = 4

\* C11: a DELETE by the owner answers 200 with the task as it was and removes
\* that task alone; an id once consumed stays absent, and every later GET or
\* DELETE of it answers 404 Task not found and leaves the collection alone.
Consumed(i) == i < nextId /\ i \notin DOMAIN tasks
DeleteConsumesOnce ==
    /\ [][ (stage = "route" /\ req.method = "DELETE"
              /\ req.id \in DOMAIN tasks
              /\ tasks[req.id].user = req.user[1])
          => /\ resp'.status = 200
             /\ resp'.task = Some(tasks[req.id])
             /\ DOMAIN tasks' = DOMAIN tasks \ {req.id}
             /\ \A i \in DOMAIN tasks' : tasks'[i] = tasks[i] ]_vars
    /\ [][ \A i \in TaskIds : Consumed(i) => i \notin DOMAIN tasks' ]_vars
    /\ [][ (stage = "route" /\ req.method \in {"GET", "DELETE"}
              /\ Consumed(req.id))
          => /\ resp' = Fail(404, "Task not found")
             /\ tasks' = tasks ]_vars

DeletedTwice ==
    /\ stage = "done" /\ req.method = "DELETE" /\ req.user # None
    /\ Consumed(req.id)
    /\ resp = Fail(404, "Task not found")

\* the tasks a list request of user u asks for: the tasks u owns that equal
\* each filter the query gives
Supplied(query, f) == Has(query, f) /\ query[f] # ""
Wanted(query, u) ==
    {tasks[i] : i \in {j \in DOMAIN tasks :
        /\ tasks[j].user = u
        /\ Supplied(query, "status") => tasks[j].status = query["status"]
        /\ Supplied(query, "priority") => tasks[j].priority = query["priority"]}}
Listed == stage = "done" /\ req.method = "LIST" /\ req.user # None
Range(seq) == {seq[k] : k \in DOMAIN seq}

\* C12: GET / answers 200 with exactly the tasks the user owns that equal
\* each filter given, each once, and count is the number of tasks returned;
\* Task.getTasksByUser finds the same tasks.
ListIsOwnersMatchingTasks ==
    /\ Listed =>
          /\ resp.status = 200
          /\ Range(resp.tasks) = Wanted(req.query, req.user[1])
          /\ Len(resp.tasks) = Cardinality(Wanted(req.query, req.user[1]))
          /\ resp.count = Some(Len(resp.tasks))
    /\ \A u \in Users : \A qy \in ListQueries :
          \A docs \in getTasksByUser(tasks, u, qy) :
             /\ Range(docs) = Wanted(qy, u)
             /\ Len(docs) = Cardinality(Wanted(qy, u))

ListedBesideOthersTask ==
    /\ Listed
    /\ Supplied(req.query, "status")
    /\ resp.count = Some(1)
    /\ \E i \in DOMAIN tasks :
          tasks[i].user # req.user[1] /\ tasks[i].status = req.query["status"]

\* C13: the tasks GET / returns come newest first (createdAt descending) when
\* sort is newest, absent or not a known key, by createdAt ascending under
\* oldest, by title ascending under title, and by due date ascending under
\* dueDate.
SortKey == IF Has(req.query, "sort") THEN req.query["sort"] ELSE ""
ListIsOrderedBySortKey ==
    Listed =>
      \A k \in 1..(Len(resp.tasks) - 1) :
        LET a == resp.tasks[k]
            b == resp.tasks[k + 1]
        IN  CASE SortKey = "oldest" -> a.createdAt <= b.createdAt
              [] SortKey = "title" -> StrLeq(a.title, b.title)
              [] SortKey = "dueDate" ->
                   (a.dueDate # None /\ b.dueDate # None)
                     => a.dueDate[1] <= b.dueDate[1]
              [] OTHER -> a.createdAt >= b.createdAt

ListedByTitleAgainstDefault ==
    /\ Listed
    /\ SortKey = "title"
    /\ resp.count = Some(2)
    /\ resp.tasks[1].title # resp.tasks[2].title
    /\ resp.tasks[1].createdAt < resp.tasks[2].createdAt

\* C14: GET /search without q, or with an empty q, answers 400 Search query is
\* required and returns no task; with a non-empty q it answers 200 with stored
\* tasks of the authenticated user only.
Searched == stage = "done" /\ req.method = "SEARCH" /\ req.user # None
SearchNeedsQueryAndStaysWithOwner ==
    Searched =>
      IF ~Has(req.query, "q") \/ req.query["q"] = <<>>
      THEN resp = Fail(400, "Search query is required")
      ELSE /\ resp.status = 200
           /\ resp.count = Some(Len(resp.tasks))
           /\ \A k \in DOMAIN resp.tasks :
                /\ resp.tasks[k].user = req.user[1]
                /\ resp.tasks[k].id \in DOMAIN tasks
                /\ tasks[resp.tasks[k].id] = resp.tasks[k]

SearchedBesideOthersMatch ==
    /\ Searched
    /\ Has(req.query, "q")
    /\ resp.count = Some(1)
    /\ \E i \in DOMAIN tasks :
          tasks[i].user # req.user[1] /\ textSearch(tasks[i], req.query["q"])

\* two updates of task 1 both answered 200, and what each gave and read
BothSaved ==
    /\ 1 \in DOMAIN tasks
    /\ \A s \in Slots : inflight[s].pc = "done" /\ inflight[s].resp.status = 200
GivenBy(s, f) == inflight[s].resp.task[1][f]
ReadBy(s, f) == inflight[s].task[1][f]
Suppliers(f) == {s \in Slots : Has(inflight[s].body, f)}
Changers(f) == {s \in Suppliers(f) : GivenBy(s, f) # ReadBy(s, f)}
LastOf(S) == CHOOSE s \in S : \A r \in S : inflight[r].savedAt <= inflight[s].savedAt

\* C15 as stated: after two interleaved updates each field holds the value
\* given by the last save whose request supplied it.
LastSupplierWins ==
    BothSaved =>
      \A f \in TaskFields :
        Suppliers(f) # {} => tasks[1][f] = GivenBy(LastOf(Suppliers(f)), f)

\* C15: after two interleaved updates each field holds the value given by the
\* last save whose request supplied a value other than the one it had read,
\* or its old value when no request did; a field supplied by one request
\* alone holds that request's value.
LastChangerWins ==
    BothSaved =>
      \A f \in TaskFields :
        /\ IF Changers(f) # {}
           THEN tasks[1][f] = GivenBy(LastOf(Changers(f)), f)
           ELSE \A s \in Slots : tasks[1][f] = ReadBy(s, f)
        /\ \A s \in Slots : Suppliers(f) = {s} => tasks[1][f] = GivenBy(s, f)

BothUpdatesKept ==
    /\ BothSaved
    /\ inflight["a"].task = inflight["b"].task
    /\ Suppliers("title") = {"a"}
    /\ Suppliers("status") = {"b"}
    /\ tasks[1].title = CallBob
    /\ tasks[1].status = "completed"

\* C20: a task deleted between the findOne and the save of an update stays
\* deleted: that save stores nothing and the update is not answered 200; a
\* task once absent is absent ever after.
DeletedStaysDeleted ==
    /\ [][ \A s \in Slots :
            (inflight[s].pc = "found" /\ inflight'[s].pc = "done"
                /\ inflight[s].id \notin DOMAIN tasks)
            => /\ inflight[s].id \notin DOMAIN tasks'
               /\ inflight'[s].resp.status # 200 ]_vars
    /\ [][ \A i \in TaskIds : Consumed(i) => i \notin DOMAIN tasks' ]_vars

SavedAfterDelete ==
    \E s \in Slots :
      /\ inflight[s].pc = "done"
      /\ inflight[s].task # None
      /\ inflight[s].resp.status = 500
      /\ inflight[s].id \notin DOMAIN tasks
      /\ stage = "done" /\ req.method = "DELETE" /\ resp.status = 200

\* C16: a create or update that succeeds leaves the task with updatedAt equal
\* to the time of the operation; updatedAt of a task never decreases and is
\* never earlier than its createdAt.
UpdatedAtFollowsEveryWrite ==
    /\ [][ (stage = "route" /\ stage' = "done"
              /\ req.method \in {"POST", "PUT"}
              /\ resp'.status \in {200, 201})
          => /\ resp'.task[1].id \in DOMAIN tasks'
             /\ tasks'[resp'.task[1].id].updatedAt = now
             /\ resp'.task[1].updatedAt = now ]_vars
    /\ [][ \A i \in DOMAIN tasks \cap DOMAIN tasks' :
            tasks'[i].updatedAt >= tasks[i].updatedAt ]_vars
    /\ [](\A i \in DOMAIN tasks : tasks[i].updatedAt >= tasks[i].createdAt)

UpdatedLaterThanCreated ==
    /\ stage = "done" /\ req.method = "PUT" /\ resp.status = 200
    /\ req.id \in DOMAIN tasks
    /\ tasks[req.id].updatedAt > tasks[req.id].createdAt
    /\ tasks[req.id].updatedAt + 1 = now

\* C17: an update by the owner that supplies a status of the enumeration, in
\* a body that passes validation, answers 200 and leaves the task with that
\* status, whatever status the task had.
AnyStatusFromAnyStatus ==
    [][ (stage = "route" /\ stage' = "done" /\ req.method = "PUT"
            /\ req.id \in DOMAIN tasks
            /\ tasks[req.id].user = req.user[1]
            /\ Has(req.body, "status")
            /\ req.body["status"] \in {"pending", "in-progress", "completed"})
        => /\ resp'.status = 200
           /\ resp'.task[1].status = req.body["status"]
           /\ tasks'[req.id].status = req.body["status"] ]_vars

\* this task was saved twice, by its create and by the update answered: the
\* one create that gives it this title, no description and the default
\* priority is the create with status completed
CompletedSetBackToPending ==
    /\ stage = "done" /\ req.method = "PUT" /\ resp.status = 200
    /\ req.body = [status |-> "pending"]
    /\ req.id \in DOMAIN tasks
    /\ tasks[req.id].status = "pending"
    /\ \E t \in 0..MaxClock :
          /\ tasks[req.id].createdAt = t
          /\ tasks[req.id].updatedAt = t + 1
          /\ tasks[req.id] =
               [NewTask(req.id, [title |-> BuyMilk, status |-> "completed"],
                        "u1", t)
                  EXCEPT !.status = "pending", !.updatedAt = t + 1]

\* C19: every stored task has a title of 3 to 100 characters, a description
\* of at most 500 characters or none, a status and a priority of their
\* enumerations, and one owner, a user.
StoredTasksAreValid ==
    \A i \in DOMAIN tasks :
      /\ Len(tasks[i].title) >= 3
      /\ Len(tasks[i].title) <= 100
      /\ tasks[i].description = None \/ Len(tasks[i].description[1]) <= 500
      /\ tasks[i].status \in {"pending", "in-progress", "completed"}
      /\ tasks[i].priority \in {"low", "medium", "high"}
      /\ tasks[i].user \in Users
      /\ tasks[i].id = i

LongestTitleStoredByUpdate ==
    /\ stage = "done" /\ req.method = "PUT" /\ resp.status = 200
    /\ req.id \in DOMAIN tasks
    /\ Has(req.body, "title")
    /\ Len(req.body["title"]) > 100
    /\ Len(tasks[req.id].title) = 100

\* C18: a task operation whose database call fails is answered 500 with a
\* body of success false and a message only, whatever the route.
StorageFailureTellsNothing ==
    (stage = "done" /\ resp.status = 500)
    => /\ resp.message = catchMessage(req.method)
       /\ resp.error = None
       /\ resp.task = None /\ resp.tasks = <<>> /\ resp.errors = <<>>

\* C21: once two Dashboard handlers have both been answered with success,
\* the tasks the Dashboard holds are the tasks the server stores for the
\* user, each once.
BothHandled ==
    \A h \in Calls :
      dashboard.calls[h].pc = "done" /\ dashboard.calls[h].resp.status \in {200, 201}
DashboardHoldsServerTasks ==
    BothHandled =>
      /\ Range(dashboard.tasks) = {tasks[i] : i \in {j \in DOMAIN tasks : tasks[j].user = "u1"}}
      /\ Len(dashboard.tasks) = Cardinality(Range(dashboard.tasks))

\* C22: the browser stores a token exactly when it stores a user, and a
\* response of status 401 leaves neither stored, so that isAuthenticated()
\* is false.
TokenAndUserTogether ==
    /\ [](localStorage.token # None <=> localStorage.user # None)
    /\ [][ \A h \in Calls :
            (dashboard.calls[h].pc = "sent" /\ dashboard'.calls[h].pc = "done"
                /\ resp.status = 401)
            => /\ localStorage'.token = None
               /\ localStorage'.user = None
               /\ ~isAuthenticated(localStorage') ]_vars

LoggedOutBy401 ==
    \E h \in Calls :
      /\ dashboard.calls[h].pc = "done"
      /\ dashboard.calls[h].authorization # NoHeader
      /\ dashboard.calls[h].resp.status = 401
      /\ localStorage = NoStorage

====
